---- MODULE Spec2Model ----
(***************************************************************************)
(* Wave Function Collapse solver (src/src/wave.rs) with its supporting     *)
(* Grid (src/src/grid.rs), SuperState (src/src/superstate.rs) and the tile *)
(* adjacency test (src/src/tile.rs).                                       *)
(*                                                                         *)
(* The random number generator is abstracted: every draw is a             *)
(* nondeterministic choice among the outcomes that have non-zero           *)
(* probability.  rollback_penalty (an f64 that only ever holds multiples   *)
(* of 0.5) is stored as its number of halves.                              *)
(***************************************************************************)
EXTENDS Integers, Sequences, FiniteSets, TLC

\* ---------------------------------------------------------------- bounds

MaxWidth == 3
MaxHeight == 2
MaxCells == 3
\* cap of the collapse history length (the code has none)
MaxCollapsed == 6
\* cap of rollback_penalty, in halves (the code has none)
MaxPenalty == 5
\* width of usize in the model; the arithmetic is taken modulo 2^UsizeBits
UsizeBits == 16
\* how many writes (replace, set) a run on a Grid<usize> makes
MaxWrites == 1
\* how many passes of its loop WfcApp::run makes
MaxTicks == 4
\* the largest count rollback() is called with
MaxCount == 2
\* how many tile configurations from_config is given
MaxConfigs == 2
\* how many different patches the bitmap given to from_image holds
MaxPatches == 3

\* wave.rs:329 - analyze_contradiction searches up to this radius
MaxSearchRadius == 3

\* performance_tests.rs:172 - test_grid_neighbor_access_correctness builds Grid::new(3, 3, ..)
TestGridSize == 3

\* the side of the grid of the checkerboard scenario
BoardSize == 4

\* app.rs:160-200 - create_renderers pushes at most the SDL and the image renderer
MaxRenderers == 2

VARIABLES
    width, height,      \* Grid::width, Grid::height (shared by grid, grid_base, data)
    cat,                \* the catalogue: prototype id |-> [neighbors, weight]
    build,              \* "any" until a usize subtraction underflows; then "release" if it
                        \* wrapped (no overflow checks) or "debug" if it panicked
    grid,               \* Wave::grid, row-major sequence of SuperState
    grid_base,          \* Wave::grid_base
    stack,              \* Wave::stack, the propagation queue (VecDeque<Position>)
    data,               \* Wave::data, the pending constraint snapshots
    collapsed,          \* Wave::collapsed, sequence of <<Position, Reason>>
    last_rollback,      \* Wave::last_rollback
    rollback_penalty,   \* Wave::rollback_penalty, in halves
    pc,                 \* "idle": between public calls, "tick": inside tick()'s loop, "panicked"
    worked,             \* the local `worked` of tick()
    op,                 \* the public call that ran last
    ret,                \* what the last completed tick_once / maybe_collapse returned
    tick_ret,           \* what the last completed tick returned
    done_at_call,       \* done() as it was when the running or last call of tick() started
    ev,                 \* what the last step did: contradiction, reset, observation
    call,               \* the last call made on a Grid<usize>: arguments and result
    app,                \* where WfcApp::run stands
    events              \* the RenderEvents run has emitted and the ticks it has started

vars == <<width, height, cat, build, grid, grid_base, stack, data, collapsed,
          last_rollback, rollback_penalty, pc, worked, op, ret, tick_ret,
          done_at_call, ev, call, app, events>>

\* what the library's own calls leave alone
observers == <<call, app, events>>

\* Option<T>: None, or Some(v) holding v
None == <<>>
Some(v) == <<v>>
unwrap(o) == o[1]
Implicit == "Implicit"
Explicit == "Explicit"

\* ------------------------------------------------------------- Direction

\* the order of the enum, which is the order EnumMap iterates in
Dirs == <<"Up", "Right", "Down", "Left">>
DirSet == {"Up", "Right", "Down", "Left"}

invert(d) ==
    CASE d = "Up" -> "Down"
      [] d = "Down" -> "Up"
      [] d = "Left" -> "Right"
      [] d = "Right" -> "Left"

\* ------------------------------------------------------------------ Grid

size == width * height

\* the positions in the order Grid's iterator yields them (row-major)
GridIter == [i \in 1..size |-> <<(i - 1) % width, (i - 1) \div width>>]
AllPositions == {GridIter[i] : i \in 1..size}

Positions(w, h) == (0..(w - 1)) \X (0..(h - 1))

\* Grid::new with the initializer given by its graph, a column-major layout
Grid_new_column_major(w, h, initializer) ==
    [i \in 1..(w * h) |-> initializer[<<(i - 1) \div h, (i - 1) % h>>]]

\* Grid::new: `for y in 0..height { for x in 0..width { data.push(initializer(x, y)) } }`
Grid_new(w, h, initializer) ==
    [i \in 1..(w * h) |-> initializer[<<(i - 1) % w, (i - 1) \div w>>]]

\* the initializer `|_, _| value`
Constantly(w, h, value) == [p \in Positions(w, h) |-> value]

get(g, x, y) ==
    LET index == x + (y * width)
    IN IF index < Len(g) THEN Some(g[index + 1]) ELSE None

get_mut(g, x, y) ==
    LET index == x + (y * width)
    IN IF index < Len(g) THEN Some(g[index + 1]) ELSE None

\* the value returned and the data left behind
replace(g, x, y, value) ==
    LET index == x + (y * width)
    IN IF index >= Len(g)
       THEN [result |-> None, data |-> g]
       ELSE [result |-> Some(g[index + 1]), data |-> [g EXCEPT ![index + 1] = value]]

\* Grid::set that checks the linear index only
Grid_set_unchecked(g, x, y, value) ==
    IF x + (y * width) >= Len(g)
    THEN [err |-> TRUE, data |-> g]
    ELSE [err |-> FALSE, data |-> [g EXCEPT ![x + (y * width) + 1] = value]]

Grid_set(g, x, y, value) ==
    IF x >= width \/ y >= height
    THEN [err |-> TRUE, data |-> g]
    ELSE [err |-> FALSE, data |-> [g EXCEPT ![x + (y * width) + 1] = value]]

\* grid.set(x, y, v).unwrap()
set(g, x, y, value) == Grid_set(g, x, y, value).data

\* get_neighbor_position without the checks at the right and the bottom edge
get_neighbor_position_spill(x, y, direction) ==
    CASE direction = "Up" -> IF y = 0 THEN None ELSE Some(<<x, y - 1>>)
      [] direction = "Down" -> Some(<<x, y + 1>>)
      [] direction = "Left" -> IF x = 0 THEN None ELSE Some(<<x - 1, y>>)
      [] direction = "Right" -> Some(<<x + 1, y>>)

get_neighbor_position(x, y, direction) ==
    CASE direction = "Up" -> IF y = 0 THEN None ELSE Some(<<x, y - 1>>)
      [] direction = "Down" -> IF y + 1 >= height THEN None ELSE Some(<<x, y + 1>>)
      [] direction = "Left" -> IF x = 0 THEN None ELSE Some(<<x - 1, y>>)
      [] direction = "Right" -> IF x + 1 >= width THEN None ELSE Some(<<x + 1, y>>)

get_neighbor(g, x, y, direction) ==
    LET l == get_neighbor_position(x, y, direction)
    IN IF l = None THEN None ELSE get(g, unwrap(l)[1], unwrap(l)[2])

get_neighbor_positions(x, y) ==
    [direction \in DirSet |-> get_neighbor_position(x, y, direction)]

get_neighbors(g, x, y) ==
    [direction \in DirSet |-> get_neighbor(g, x, y, direction)]

\* GridIter::next, called until it yields none: the items (x, y, cell) in order
RECURSIVE GridIter_next(_, _, _, _)
GridIter_next(g, pos, x, y) ==
    IF pos >= Len(g)
    THEN <<>>
    ELSE <<<<x, y, g[pos + 1]>>>> \o
         GridIter_next(g, pos + 1,
                       IF x + 1 >= width THEN 0 ELSE x + 1,
                       IF x + 1 >= width THEN y + 1 ELSE y)

iter(g) == GridIter_next(g, 0, 0, 0)

reset_to_default(g) == [i \in 1..Len(g) |-> None]

\* ------------------------------------------------------------ SuperState

SuperState_new(possible) ==
    [possible |-> possible, base_entropy |-> Len(possible), entropy |-> Len(possible)]

collapsing(c) == c.base_entropy # c.entropy

Ids(c) == {c.possible[i] : i \in DOMAIN c.possible}

\* a test in which a direction without constraint rules every prototype out
test_empty_excludes(id, neighbors) ==
    \A d \in DirSet : (cat[id].neighbors[d] \cap neighbors[d]) # {}

\* Tile::test: every direction with a non-empty constraint set must share an id
test(id, neighbors) ==
    \A d \in DirSet :
        neighbors[d] = {} \/ (cat[id].neighbors[d] \cap neighbors[d]) # {}

\* a tick that leaves the cached entropy as it was
SuperState_tick_stale(c, neighbors) ==
    IF c.entropy > 1
    THEN [c EXCEPT !.possible = SelectSeq(c.possible, LAMBDA s : test(s, neighbors))]
    ELSE c

SuperState_tick(c, neighbors) ==
    IF c.entropy > 1
    THEN LET kept == SelectSeq(c.possible, LAMBDA s : test(s, neighbors))
         IN [c EXCEPT !.possible = kept, !.entropy = Len(kept)]
    ELSE c

\* a draw that may pick any prototype of the catalogue
SuperState_collapse_any(c) ==
    IF Len(c.possible) > 1
    THEN {[c EXCEPT !.possible = <<id>>, !.entropy = 1] : id \in DOMAIN cat}
    ELSE {c}

\* the outcomes of the weighted draw: any possible prototype of non-zero weight
SuperState_collapse(c) ==
    IF Len(c.possible) > 1
    THEN {[c EXCEPT !.possible = <<id>>, !.entropy = 1] :
            id \in {i \in Ids(c) : cat[i].weight > 0}}
    ELSE {c}

\* ------------------------------------------------------------------ Wave
\* The operators below work on a record w of the Wave's mutable fields
\* (grid, stack, data, collapsed, last_rollback, rollback_penalty) and ev.

\* ev: cell, the position tick_cell ran on; contra, a contradiction was handled;
\* branch, how ("reset", "rollback", "conflict"); panic, the step panicked on
\* an underflow;
\* mc, what maybe_collapse did ("not_called", "none", "some")
NoEvent ==
    [cell |-> None, contra |-> FALSE, branch |-> "none", panic |-> FALSE,
     mc |-> "not_called"]

Self ==
    [grid |-> grid, stack |-> stack, data |-> data, collapsed |-> collapsed,
     last_rollback |-> last_rollback, rollback_penalty |-> rollback_penalty,
     build |-> build, ev |-> NoEvent]

Modulus == 2 ^ UsizeBits

\* usize subtraction: wraps without overflow checks (with them it panics, see Underflows)
usize_sub(a, b) == (a - b) % Modulus

remaining_of(w) == usize_sub(size, Len(w.collapsed))

\* remaining() underflows: a panic in a build with overflow checks
Underflows(w) == Len(w.collapsed) > size

remaining == remaining_of(Self)

done == remaining = 0

\* f64::ceil of a penalty stored in halves
ceil(halves) == (halves + 1) \div 2

\* the ids possible at each neighbour, the empty set beyond the grid's edge
LiveNeighbors(g, x, y) ==
    [d \in DirSet |->
        LET n == get_neighbor(g, x, y, d)
        IN IF n = None THEN {} ELSE Ids(unwrap(n))]

EmptyNeighbors == [d \in DirSet |-> {}]

RECURSIVE mark_from(_, _, _, _, _)
mark_from(w, possible_states, cx, cy, i) ==
    IF i > Len(Dirs) THEN w
    ELSE LET direction == Dirs[i]
             pos == get_neighbor_position(cx, cy, direction)
             p == unwrap(pos)
         IN IF pos = None THEN mark_from(w, possible_states, cx, cy, i + 1)
            ELSE LET cur == unwrap(get(w.data, p[1], p[2]))
                 IN IF cur = None
                    THEN mark_from(
                           [w EXCEPT
                              !.data = set(@, p[1], p[2],
                                  Some([EmptyNeighbors EXCEPT ![invert(direction)] = possible_states])),
                              !.stack = Append(@, p)],
                           possible_states, cx, cy, i + 1)
                    ELSE mark_from(
                           [w EXCEPT
                              !.data = set(@, p[1], p[2],
                                  Some([unwrap(cur) EXCEPT ![invert(direction)] = possible_states]))],
                           possible_states, cx, cy, i + 1)

mark(w, cx, cy) == mark_from(w, Ids(unwrap(get(w.grid, cx, cy))), cx, cy, 1)

\* Wave::collapse: one outcome per outcome of the weighted draw
collapse(w, x, y) ==
    {mark([w EXCEPT !.grid = set(@, x, y, c),
                    !.collapsed = Append(@, <<<<x, y>>, Explicit>>)], x, y) :
        c \in SuperState_collapse(unwrap(get(w.grid, x, y)))}

RECURSIVE rollback_propegate(_, _, _, _)
RECURSIVE rollback_propegate_from(_, _, _, _, _)

\* an entry that queues the cell without setting it to its base state
rollback_propegate_keeps_cell(w, x, y, from) ==
    rollback_propegate_from([w EXCEPT !.stack = Append(@, <<x, y>>)], x, y, from, 1)

rollback_propegate_from(w, x, y, from, i) ==
    IF i > Len(Dirs) THEN w
    ELSE LET direction == Dirs[i]
             pos == get_neighbor_position(x, y, direction)
             value == unwrap(pos)
         IN IF direction = (IF from = None THEN invert(direction) ELSE unwrap(from))
            THEN rollback_propegate_from(w, x, y, from, i + 1)
            ELSE IF pos = None
            THEN rollback_propegate_from(w, x, y, from, i + 1)
            ELSE LET cell == unwrap(get(w.grid, value[1], value[2]))
                     entropy == cell.entropy
                 IN IF entropy = 1 \/ ~collapsing(cell)
                    THEN rollback_propegate_from(w, x, y, from, i + 1)
                    ELSE LET base == SuperState_tick(unwrap(get(grid_base, value[1], value[2])),
                                                     LiveNeighbors(w.grid, value[1], value[2]))
                         IN IF entropy # base.entropy
                            THEN rollback_propegate_from(
                                   rollback_propegate(w, value[1], value[2], Some(invert(direction))),
                                   x, y, from, i + 1)
                            ELSE rollback_propegate_from(w, x, y, from, i + 1)

rollback_propegate(w, x, y, from) ==
    rollback_propegate_from(
        [w EXCEPT !.grid = set(@, x, y, unwrap(get(grid_base, x, y))),
                  !.stack = Append(@, <<x, y>>)],
        x, y, from, 1)

\* a loop that counts every popped entry, Implicit ones too
RECURSIVE rollback_loop_counts_all(_, _)
rollback_loop_counts_all(w, count) ==
    IF w.collapsed = <<>> THEN w
    ELSE LET top == w.collapsed[Len(w.collapsed)]
             x == top[1][1]
             y == top[1][2]
             popped == [w EXCEPT !.collapsed = SubSeq(@, 1, Len(@) - 1)]
             w1 == rollback_propegate(popped, x, y, None)
             w2 == [w1 EXCEPT !.stack = <<<<x, y>>>> \o @]
         IN IF count - 1 = 0 THEN w2 ELSE rollback_loop_counts_all(w2, count - 1)

RECURSIVE rollback_loop(_, _)
rollback_loop(w, count) ==
    IF w.collapsed = <<>> THEN w
    ELSE LET top == w.collapsed[Len(w.collapsed)]
             x == top[1][1]
             y == top[1][2]
             popped == [w EXCEPT !.collapsed = SubSeq(@, 1, Len(@) - 1)]
             w1 == rollback_propegate(popped, x, y, None)
             w2 == [w1 EXCEPT !.stack = <<<<x, y>>>> \o @]
         IN IF top[2] = Explicit
            THEN IF count - 1 = 0 THEN w2 ELSE rollback_loop(w2, count - 1)
            ELSE rollback_loop(w2, count)

rollback(w, count) ==
    IF count = 0 THEN w
    ELSE rollback_loop([w EXCEPT !.data = reset_to_default(@)], count)

ExplicitCount(c) == Cardinality({i \in DOMAIN c : c[i][2] = Explicit})

\* a rebuild without stack.clear(): the positions are appended to the queue
rebuild_queue_appends(w) ==
    [w EXCEPT !.stack = @ \o GridIter, !.data = reset_to_default(@)]

\* clear the queue, then enqueue every position with its pending entry None
rebuild_queue(w) ==
    [w EXCEPT !.stack = GridIter, !.data = reset_to_default(@)]

\* a reset that keeps the collapse history
smart_rollback_keeps_history(w) ==
    LET collapsed_count == usize_sub(size, remaining_of(w))
        w1 == IF collapsed_count <= w.last_rollback
              THEN [w EXCEPT !.rollback_penalty = @ + 1]
              ELSE [w EXCEPT !.last_rollback = collapsed_count, !.rollback_penalty = 1]
    IN IF ExplicitCount(w1.collapsed) < ceil(w1.rollback_penalty)
       THEN [w1 EXCEPT !.grid = grid_base,
                       !.data = reset_to_default(@),
                       !.stack = <<>>,
                       !.rollback_penalty = 1,
                       !.last_rollback = 0,
                       !.ev.branch = "reset"]
       ELSE rebuild_queue([rollback(w1, ceil(w1.rollback_penalty))
                              EXCEPT !.ev.branch = "rollback"])

smart_rollback(w) ==
    LET collapsed_count == usize_sub(size, remaining_of(w))
        w1 == IF collapsed_count <= w.last_rollback
              THEN [w EXCEPT !.rollback_penalty = @ + 1]
              ELSE [w EXCEPT !.last_rollback = collapsed_count, !.rollback_penalty = 1]
    IN IF ExplicitCount(w1.collapsed) < ceil(w1.rollback_penalty)
       THEN [w1 EXCEPT !.grid = grid_base,
                       !.data = reset_to_default(@),
                       !.collapsed = <<>>,
                       !.stack = <<>>,
                       !.rollback_penalty = 1,
                       !.last_rollback = 0,
                       !.ev.branch = "reset"]
       ELSE rebuild_queue([rollback(w1, ceil(w1.rollback_penalty))
                              EXCEPT !.ev.branch = "rollback"])

Abs(n) == IF n < 0 THEN -n ELSE n

\* rposition of (pos, Explicit) in the collapse history; 0 when there is none
LastExplicit(c, pos) ==
    LET at == {i \in DOMAIN c : c[i] = <<pos, Explicit>>}
    IN IF at = {} THEN 0 ELSE CHOOSE i \in at : \A j \in at : j <= i

\* the in-grid positions other than the centre within the square of a radius
Square(cx, cy, radius) ==
    {p \in AllPositions :
        /\ p # <<cx, cy>>
        /\ Abs(p[1] - cx) <= radius
        /\ Abs(p[2] - cy) <= radius}

RECURSIVE analyze_from(_, _, _)
analyze_from(w, contradiction_pos, search_radius) ==
    IF search_radius > MaxSearchRadius THEN None
    ELSE LET found == {p \in Square(contradiction_pos[1], contradiction_pos[2], search_radius) :
                          LastExplicit(w.collapsed, p) > 0}
         IN IF found = {}
            THEN analyze_from(w, contradiction_pos, search_radius + 1)
            ELSE Some(CHOOSE p \in found : \A q \in found :
                        LastExplicit(w.collapsed, q) <= LastExplicit(w.collapsed, p))

analyze_contradiction(w, contradiction_pos) == analyze_from(w, contradiction_pos, 1)

conflict_driven_rollback(w, contradiction_pos) ==
    LET culprit == analyze_contradiction(w, contradiction_pos)
        at == LastExplicit(w.collapsed, unwrap(culprit))
        rollback_count ==
            Cardinality({i \in DOMAIN w.collapsed : i >= at /\ w.collapsed[i][2] = Explicit})
        found_culprit == at > 0
    IN rebuild_queue(
         IF culprit # None /\ found_culprit
         THEN [rollback(w, rollback_count) EXCEPT !.ev.branch = "conflict"]
         ELSE smart_rollback(w))

\* without overflow checks: `self.grid.size() - self.remaining()` wraps twice
smart_rollback_wrapping(w, contradiction_pos) ==
    LET collapsed_count == usize_sub(size, remaining_of(w))
        w1 == conflict_driven_rollback(
                [w EXCEPT !.ev.contra = TRUE,
                          !.build = IF Underflows(w) THEN "release" ELSE @],
                contradiction_pos)
    IN IF collapsed_count <= w1.last_rollback
       THEN [w1 EXCEPT !.rollback_penalty = @ + 1]
       ELSE [w1 EXCEPT !.last_rollback = collapsed_count, !.rollback_penalty = 1]

\* the outcomes: where remaining() underflows, a build with overflow checks
\* panics on the spot and a build without them goes on with the wrapped value
smart_rollback_with_contradiction(w, contradiction_pos) ==
    (IF Underflows(w) /\ w.build = "any"
     THEN {[w EXCEPT !.build = "debug", !.ev.contra = TRUE, !.ev.panic = TRUE]}
     ELSE {})
    \cup {smart_rollback_wrapping(w, contradiction_pos)}

\* Wave::tick_cell: the set of outcomes (the eager observation draws at random)
tick_cell(w0, x, y) ==
    LET w == [w0 EXCEPT !.ev.cell = Some(<<x, y>>)]
        cell0 == unwrap(get(w.grid, x, y))
    IN IF cell0.entropy = 1 THEN {w}
       ELSE LET pending == unwrap(get(w.data, x, y))
                neighbors == IF pending = None THEN LiveNeighbors(w.grid, x, y)
                             ELSE unwrap(pending)
                old_entropy == cell0.entropy
                cell == SuperState_tick(cell0, neighbors)
                w1 == [w EXCEPT !.data = set(@, x, y, None),
                                !.grid = set(@, x, y, cell),
                                !.collapsed = IF cell.entropy <= 1
                                              THEN Append(@, <<<<x, y>>, Implicit>>)
                                              ELSE @]
            IN IF cell.entropy = 0
               THEN smart_rollback_with_contradiction(w1, <<x, y>>)
               ELSE IF old_entropy # cell.entropy
               THEN IF /\ collapsing(cell)
                       /\ \A d \in DirSet :
                            LET v == get_neighbor(w1.grid, x, y, d)
                            IN IF v = None THEN TRUE ELSE ~collapsing(unwrap(v))
                    THEN collapse(w1, x, y)
                    ELSE {mark(w1, x, y)}
               ELSE {w1}

\* the 4-connected component of p among the cells whose entropy is not 1
RECURSIVE Flood(_, _)
Flood(open, area) ==
    LET more == {q \in open \ area :
                    \E p \in area : \E d \in DirSet :
                        get_neighbor_position(p[1], p[2], d) = Some(q)}
    IN IF more = {} THEN area
       ELSE CHOOSE filled \in {Flood(open, grown) : grown \in {area \cup more}} : TRUE

\* collapsable_areas scans bx in 0..width, by in 0..height: column-major
ScanKey(p) == (p[1] * height) + p[2]

\* the areas as sets of positions, in the order the stable sort by length leaves
\* them: by size, then by the scan order of the cell that started the flood fill
collapsable_areas(w) ==
    LET open == {p \in AllPositions : unwrap(get(w.grid, p[1], p[2])).entropy # 1}
        areas == {Flood(open, {p}) : p \in open}
        Start(a) == CHOOSE p \in a : \A q \in a : ScanKey(p) <= ScanKey(q)
        Before(a, b) ==
            \/ Cardinality(a) < Cardinality(b)
            \/ Cardinality(a) = Cardinality(b) /\ ScanKey(Start(a)) < ScanKey(Start(b))
        Rank(a) == 1 + Cardinality({b \in areas : Before(b, a)})
    IN [i \in 1..Cardinality(areas) |-> CHOOSE a \in areas : Rank(a) = i]

\* an observation that takes a cell of least entropy from any area
maybe_collapse_any_area(w) ==
    LET Entropy(p) == unwrap(get(w.grid, p[1], p[2])).entropy
        open == {p \in AllPositions : Entropy(p) > 1}
        candidates == {p \in open : \A q \in open : Entropy(p) <= Entropy(q)}
    IN IF candidates = {}
       THEN {[w |-> [w EXCEPT !.ev.mc = "none"], ret |-> None]}
       ELSE UNION {{[w |-> [w2 EXCEPT !.ev.mc = "some"], ret |-> Some(p)] :
                       w2 \in collapse(w, p[1], p[2])} : p \in candidates}

\* Wave::maybe_collapse: the set of outcomes [w, ret]
maybe_collapse(w) ==
    LET areas == collapsable_areas(w)
        first_area == areas[1]
        Entropy(p) == unwrap(get(w.grid, p[1], p[2])).entropy
        open == {p \in first_area : Entropy(p) > 1}
        candidates == {p \in open : \A q \in open : Entropy(p) <= Entropy(q)}
    IN IF areas = <<>> \/ candidates = {}
       THEN {[w |-> [w EXCEPT !.ev.mc = "none"], ret |-> None]}
       ELSE UNION {{[w |-> [w2 EXCEPT !.ev.mc = "some"], ret |-> Some(p)] :
                       w2 \in collapse(w, p[1], p[2])} : p \in candidates}

\* ------------------------------------------------------------ catalogues

Proto(up, right, down, left, weight) ==
    [neighbors |-> [d \in DirSet |->
                      CASE d = "Up" -> up [] d = "Right" -> right
                        [] d = "Down" -> down [] d = "Left" -> left],
     weight |-> weight]

Uniform(ids, weight) == Proto(ids, ids, ids, ids, weight)

\* a prototype's id is its index in the catalogue
Single == <<Uniform({1}, 1)>>
Free == <<Uniform({1, 2}, 10), Uniform({1, 2}, 20)>>
Checkerboard == <<Uniform({2}, 1), Uniform({1}, 1)>>
Path == <<Proto({}, {2}, {}, {}, 1), Proto({}, {3}, {}, {1}, 1), Proto({}, {}, {}, {2}, 1)>>
Rows == <<Proto({}, {1}, {}, {1}, 1), Proto({}, {2}, {}, {2}, 1)>>
Pair == <<Proto({}, {2}, {}, {}, 1), Proto({}, {}, {}, {1}, 1)>>
\* Tile::new alone: one prototype without any neighbour
Lone == <<Uniform({}, 1)>>
\* three prototypes, each adjacent to the other two
Colours == <<Uniform({2, 3}, 1), Uniform({1, 3}, 1), Uniform({1, 2}, 1)>>

\* no prototype at all: the template's possible set is empty
Empty == <<>>

\* the width of the smallest row in which a cell lies beyond the search radius of
\* analyze_contradiction from another
Wide == MaxSearchRadius + 2

\* prototype i takes i + 1 on its right and i - 1 on its left: propagation runs
\* along a row one cell at a time
Chain ==
    [i \in 1..Wide |->
        Proto({}, IF i < Wide THEN {i + 1} ELSE {}, {}, IF i > 1 THEN {i - 1} ELSE {}, 1)]

Catalogues == {Empty, Single, Lone, Free, Checkerboard, Path, Rows, Pair, Colours}

\* adjacency symmetry of a catalogue (spec section 3)
Symmetric(c) ==
    \A a \in DOMAIN c : \A d \in DirSet : \A b \in c[a].neighbors[d] :
        b \in DOMAIN c /\ a \in c[b].neighbors[invert(d)]

\* --------------------------------------------------------------- actions

\* no call on a Grid<usize> yet
NoCall == [name |-> "none"]

Template == SuperState_new([i \in 1..Len(cat) |-> i])

\* WfcApp::run has not been entered
NoApp == [at |-> "none", renderers |-> 0, slow |-> FALSE]

\* Wave::new on a grid of clones of the template
Wave_new ==
    /\ width \in 1..MaxWidth
    /\ height \in 1..MaxHeight
    /\ width * height <= MaxCells
    /\ cat \in Catalogues
    /\ build = "any"
    /\ grid = Grid_new(width, height, Constantly(width, height, Template))
    /\ grid_base = grid
    /\ stack = <<>>
    /\ data = Grid_new(width, height, Constantly(width, height, None))
    /\ collapsed = <<>>
    /\ last_rollback = 0
    /\ rollback_penalty = 0
    /\ pc = "idle"
    /\ worked = FALSE
    /\ op = "new"
    /\ ret = None
    /\ tick_ret = FALSE
    /\ done_at_call = FALSE
    /\ ev = NoEvent

\* Wave::new on one row of Wide cells
Wave_new_wide ==
    /\ width = Wide
    /\ height = 1
    /\ cat \in {Chain, Colours}
    /\ build = "any"
    /\ grid = Grid_new(width, height, Constantly(width, height, Template))
    /\ grid_base = grid
    /\ stack = <<>>
    /\ data = Grid_new(width, height, Constantly(width, height, None))
    /\ collapsed = <<>>
    /\ last_rollback = 0
    /\ rollback_penalty = 0
    /\ pc = "idle"
    /\ worked = FALSE
    /\ op = "new"
    /\ ret = None
    /\ tick_ret = FALSE
    /\ done_at_call = FALSE
    /\ ev = NoEvent

\* a wave used through its public calls
Init ==
    /\ Wave_new
    /\ call = NoCall
    /\ app = NoApp
    /\ events = <<>>

\* an assignment in which grid_base follows the grid
Becomes_rebases(w) ==
    /\ grid' = w.grid
    /\ grid_base' = w.grid
    /\ stack' = w.stack
    /\ data' = w.data
    /\ collapsed' = w.collapsed
    /\ last_rollback' = w.last_rollback
    /\ rollback_penalty' = w.rollback_penalty
    /\ ev' = w.ev
    /\ build' = w.build
    /\ UNCHANGED <<width, height, cat>>

Becomes(w) ==
    /\ grid' = w.grid
    /\ stack' = w.stack
    /\ data' = w.data
    /\ collapsed' = w.collapsed
    /\ last_rollback' = w.last_rollback
    /\ rollback_penalty' = w.rollback_penalty
    /\ ev' = w.ev
    /\ build' = w.build
    /\ UNCHANGED <<width, height, cat, grid_base>>

\* the caps of the model: the penalty stays within its bound, and so does the
\* history once it has outgrown the grid
Bounded ==
    /\ Len(collapsed) + 2 <= MaxCollapsed \/ Len(collapsed) <= size
    /\ rollback_penalty + 2 <= MaxPenalty

\* a front() in the place of pop_front(): the position stays queued
pop_front_keeps(w) == w

pop_front(w) == [w EXCEPT !.stack = Tail(@)]

\* tick(): entry
TickStartFrom(w) ==
    /\ pc = "idle"
    /\ pc' = "tick"
    /\ worked' = FALSE
    /\ op' = "tick"
    /\ done_at_call' = (remaining_of(w) = 0)
    /\ Becomes(w)
    /\ ret' = None
    /\ tick_ret' = FALSE

TickStart == TickStartFrom(Self) /\ UNCHANGED observers

\* tick(): one iteration of `while let Some((x, y)) = self.stack.pop_front()`
TickCell ==
    /\ pc = "tick"
    /\ stack # <<>>
    /\ Bounded
    /\ \E w \in tick_cell(pop_front(Self), Head(stack)[1], Head(stack)[2]) :
          /\ Becomes(w)
          /\ pc' = IF w.ev.panic THEN "panicked" ELSE "tick"
    /\ worked' = TRUE
    /\ UNCHANGED <<op, ret, tick_ret, done_at_call, observers>>

\* tick(): `worked || self.maybe_collapse().is_none()`
TickEnd ==
    /\ pc = "tick"
    /\ stack = <<>>
    /\ Bounded
    /\ IF worked
       THEN Becomes(Self) /\ tick_ret' = TRUE
       ELSE \E m \in maybe_collapse(Self) :
               Becomes(m.w) /\ tick_ret' = (m.ret = None)
    /\ pc' = "idle"
    /\ UNCHANGED <<worked, op, ret, done_at_call, observers>>

TickOnceFrom(w0) ==
    /\ pc = "idle"
    /\ Bounded
    /\ op' = "tick_once"
    /\ IF stack # <<>>
       THEN \E w \in tick_cell(pop_front(w0), Head(stack)[1], Head(stack)[2]) :
               /\ Becomes(w)
               /\ pc' = IF w.ev.panic THEN "panicked" ELSE "idle"
               /\ ret' = IF w.ev.panic THEN None ELSE Some(Head(stack))
       ELSE \E m \in maybe_collapse(w0) :
               Becomes(m.w) /\ ret' = m.ret /\ pc' = "idle"
    /\ worked' = FALSE
    /\ tick_ret' = FALSE
    /\ done_at_call' = FALSE

TickOnce == TickOnceFrom(Self) /\ UNCHANGED observers

MaybeCollapse ==
    /\ pc = "idle"
    /\ Bounded
    /\ op' = "maybe_collapse"
    /\ \E m \in maybe_collapse(Self) : Becomes(m.w) /\ ret' = m.ret
    /\ worked' = FALSE
    /\ tick_ret' = FALSE
    /\ done_at_call' = FALSE
    /\ UNCHANGED <<pc, observers>>

Next == TickStart \/ TickCell \/ TickEnd \/ TickOnce \/ MaybeCollapse

\* any sequence of public calls
Spec == Init /\ [][Next]_vars


\* The driver (main.rs 296-324, app.rs 107-133, lib.rs 240-242):
\* `while !wave.done() { wave.tick() or wave.tick_once() }`.
\* done() is remaining() == 0: where remaining() underflows, a build with
\* overflow checks panics and one without goes on with the wrapped value.
Checked == [Self EXCEPT !.build = IF Underflows(Self) THEN "release" ELSE @]

DriveTick == remaining # 0 /\ TickStartFrom(Checked) /\ UNCHANGED observers

DriveTickOnce == remaining # 0 /\ TickOnceFrom(Checked) /\ UNCHANGED observers

DrivePanic ==
    /\ pc = "idle"
    /\ Underflows(Self)
    /\ build = "any"
    /\ pc' = "panicked"
    /\ build' = "debug"
    /\ UNCHANGED <<width, height, cat, grid, grid_base, stack, data, collapsed,
                   last_rollback, rollback_penalty, worked, op, ret, tick_ret,
                   done_at_call, ev, observers>>

Drive == DriveTick \/ DriveTickOnce \/ DrivePanic \/ TickCell \/ TickEnd

DriverSpec == Init /\ [][Drive]_vars


\* The driver on the catalogues that never contradict, where collapsed holds at
\* most one entry per cell and remaining() cannot underflow.  The loop goes on
\* until done(): a step of the driver that can be taken is taken.
ContradictionFree == {Single, Lone, Free, Checkerboard}

LiveInit == Init /\ cat \in ContradictionFree

LiveDrive == DriveTick \/ DriveTickOnce \/ TickCell \/ TickEnd

LiveSpec == LiveInit /\ [][LiveDrive]_vars /\ WF_vars(LiveDrive)

\* the driver on the wide row; within the caps of the model its history never
\* outgrows the row, so done() cannot panic there
WideInit ==
    /\ Wave_new_wide
    /\ call = NoCall
    /\ app = NoApp
    /\ events = <<>>

WideSpec == WideInit /\ [][LiveDrive]_vars

\* The two-prototype checkerboard on the board of BoardSize x BoardSize cells,
\* run by the driver until done().
Wave_new_board ==
    /\ width = BoardSize
    /\ height = BoardSize
    /\ cat = Checkerboard
    /\ build = "any"
    /\ grid = Grid_new(width, height, Constantly(width, height, Template))
    /\ grid_base = grid
    /\ stack = <<>>
    /\ data = Grid_new(width, height, Constantly(width, height, None))
    /\ collapsed = <<>>
    /\ last_rollback = 0
    /\ rollback_penalty = 0
    /\ pc = "idle"
    /\ worked = FALSE
    /\ op = "new"
    /\ ret = None
    /\ tick_ret = FALSE
    /\ done_at_call = FALSE
    /\ ev = NoEvent

BoardInit ==
    /\ Wave_new_board
    /\ call = NoCall
    /\ app = NoApp
    /\ events = <<>>

BoardSpec == BoardInit /\ [][LiveDrive]_vars /\ WF_vars(LiveDrive)

\* ----------------------------------------------------------- WfcApp::run

\* run() from the point where the wave and the renderers exist: some renderers
\* (none, the image renderer, the SDL renderer or both), stepping one cell at a
\* time (`visual && slow`, which takes the SDL renderer) or one tick() at a time
AppInit ==
    /\ Wave_new
    /\ call = NoCall
    /\ app \in {a \in [at : {"start"}, renderers : 0..MaxRenderers, slow : BOOLEAN] :
                   a.slow => a.renderers >= 1}
    /\ events = <<>>

\* `for renderer in &mut renderers { renderer.handle_event(&event)?; ... }` where the
\* first n renderers return Ok: the event reaches them, and the one that fails
Delivered(event, n) ==
    [r \in 1..(IF n < app.renderers THEN n + 1 ELSE n) |-> <<event, r>>]

\* the passes of the loop that have reached the WFC step
Ticks == Cardinality({i \in DOMAIN events : events[i][1] = "Tick"})

\* run() leaves the wave and its grid alone
AppOnly ==
    UNCHANGED <<width, height, cat, grid, grid_base, stack, data, collapsed,
                last_rollback, rollback_penalty, pc, worked, op, ret, tick_ret,
                done_at_call, ev, call>>

\* emit start event
AppStarted ==
    /\ app.at = "start"
    /\ \E n \in 0..app.renderers :
          /\ events' = events \o Delivered("Started", n)
          /\ app' = [app EXCEPT !.at = IF n < app.renderers THEN "failed" ELSE "loop"]
    /\ UNCHANGED build
    /\ AppOnly

\* `while !wfc.done()`: done() panics where remaining() underflows and the build checks
AppPanic == app.at = "loop" /\ DrivePanic

\* `if renderers.iter_mut().any(|r| r.should_quit()) { return Ok(()); }`
AppQuit ==
    /\ app.at = "loop"
    /\ pc = "idle"
    /\ remaining # 0
    /\ app.renderers >= 1
    /\ app' = [app EXCEPT !.at = "quit"]
    /\ build' = Checked.build
    /\ UNCHANGED events
    /\ AppOnly

\* a pass that emits nothing before its step
AppProgressSilent ==
    /\ app.at = "loop"
    /\ pc = "idle"
    /\ remaining # 0
    /\ Ticks < MaxTicks
    /\ app' = [app EXCEPT !.at = "step"]
    /\ build' = Checked.build
    /\ UNCHANGED events
    /\ AppOnly

\* emit progress event: handle_event and update of each renderer in turn
AppProgress ==
    /\ app.at = "loop"
    /\ pc = "idle"
    /\ remaining # 0
    /\ Ticks < MaxTicks
    /\ \E n \in 0..app.renderers :
          /\ events' = events \o Delivered("Progress", n)
          /\ app' = [app EXCEPT !.at = IF n < app.renderers THEN "failed" ELSE "step"]
    /\ build' = Checked.build
    /\ AppOnly

\* perform WFC step: wfc.tick()
AppTick ==
    /\ app.at = "step"
    /\ ~app.slow
    /\ TickStartFrom(Self)
    /\ events' = Append(events, <<"Tick", 0>>)
    /\ app' = [app EXCEPT !.at = "loop"]
    /\ UNCHANGED call

\* perform WFC step: wfc.tick_once()
AppTickOnce ==
    /\ app.at = "step"
    /\ app.slow
    /\ TickOnceFrom(Self)
    /\ events' = Append(events, <<"Tick", 0>>)
    /\ app' = [app EXCEPT !.at = "loop"]
    /\ UNCHANGED call

\* the loop has ended: emit completion event
AppCompleted ==
    /\ app.at = "loop"
    /\ pc = "idle"
    /\ remaining = 0
    /\ \E n \in 0..app.renderers :
          /\ events' = events \o Delivered("Completed", n)
          /\ app' = [app EXCEPT !.at = IF n < app.renderers THEN "failed" ELSE "finished"]
    /\ UNCHANGED build
    /\ AppOnly

AppNext ==
    \/ AppStarted
    \/ AppPanic
    \/ AppQuit
    \/ AppProgress
    \/ AppTick
    \/ AppTickOnce
    \/ AppCompleted
    \/ TickCell
    \/ TickEnd

AppSpec == AppInit /\ [][AppNext]_vars

\* ------------------------------------------------------ Grid<usize> calls

\* the initializers of the tests: |x, y| x * 10 + y and |x, y| x + y
Initializers(w, h) ==
    {[p \in Positions(w, h) |-> (p[1] * 10) + p[2]],
     [p \in Positions(w, h) |-> p[1] + p[2]]}

\* the value the writes store: none of the initializers yields it
Values == {99}

\* the coordinates get, get_mut, replace and set are called with: every cell, and
\* one column and one row beyond; the neighbour lookups are called on the cells
Xs == 0..MaxWidth
Ys == 0..MaxHeight

\* a grid of integers straight after Grid::new(w, h, initializer); no wave is built on it
Grid_created(w, h, initializer) ==
    /\ width = w
    /\ height = h
    /\ grid = Grid_new(w, h, initializer)
    /\ call = [name |-> "new", x |-> 0, y |-> 0, arg |-> 0, result |-> None,
               initializer |-> initializer, writes |-> 0]
    /\ cat = Empty
    /\ build = "any"
    /\ grid_base = <<>>
    /\ stack = <<>>
    /\ data = <<>>
    /\ collapsed = <<>>
    /\ last_rollback = 0
    /\ rollback_penalty = 0
    /\ pc = "idle"
    /\ worked = FALSE
    /\ op = "new"
    /\ ret = None
    /\ tick_ret = FALSE
    /\ done_at_call = FALSE
    /\ ev = NoEvent
    /\ app = NoApp
    /\ events = <<>>

GridInit ==
    \E w \in 1..MaxWidth, h \in 1..MaxHeight :
        \E initializer \in Initializers(w, h) : Grid_created(w, h, initializer)

\* the grid of test_grid_neighbor_access_correctness
NeighborTestInit ==
    Grid_created(TestGridSize, TestGridSize,
                 [p \in Positions(TestGridSize, TestGridSize) |-> (p[1] * 10) + p[2]])

\* the call made, with what it was given and what it returned
Called(name, x, y, arg, result) ==
    [call EXCEPT !.name = name, !.x = x, !.y = y, !.arg = arg, !.result = result]

\* a call on the grid touches nothing but the grid
GridOnly ==
    UNCHANGED <<width, height, cat, build, grid_base, stack, data, collapsed,
                last_rollback, rollback_penalty, pc, worked, op, ret, tick_ret,
                done_at_call, ev, app, events>>

GridGet ==
    /\ \E x \in Xs, y \in Ys : call' = Called("get", x, y, 0, get(grid, x, y))
    /\ UNCHANGED grid
    /\ GridOnly

GridGetMut ==
    /\ \E x \in Xs, y \in Ys : call' = Called("get_mut", x, y, 0, get_mut(grid, x, y))
    /\ UNCHANGED grid
    /\ GridOnly

GridReplace ==
    /\ call.writes < MaxWrites
    /\ \E x \in Xs, y \in Ys, value \in Values :
          LET r == replace(grid, x, y, value)
          IN /\ grid' = r.data
             /\ call' = [Called("replace", x, y, value, r.result) EXCEPT !.writes = @ + 1]
    /\ GridOnly

GridSet ==
    /\ call.writes < MaxWrites
    /\ \E x \in Xs, y \in Ys, value \in Values :
          LET r == Grid_set(grid, x, y, value)
          IN /\ grid' = r.data
             /\ call' = [Called("set", x, y, value, r.err) EXCEPT !.writes = @ + 1]
    /\ GridOnly

GridNeighborPosition ==
    /\ \E x \in 0..(width - 1), y \in 0..(height - 1), direction \in DirSet :
          call' = Called("get_neighbor_position", x, y, direction,
                         get_neighbor_position(x, y, direction))
    /\ UNCHANGED grid
    /\ GridOnly

GridNeighbor ==
    /\ \E x \in 0..(width - 1), y \in 0..(height - 1), direction \in DirSet :
          call' = Called("get_neighbor", x, y, direction,
                         get_neighbor(grid, x, y, direction))
    /\ UNCHANGED grid
    /\ GridOnly

GridNeighborPositions ==
    /\ \E x \in 0..(width - 1), y \in 0..(height - 1) :
          call' = Called("get_neighbor_positions", x, y, 0, get_neighbor_positions(x, y))
    /\ UNCHANGED grid
    /\ GridOnly

GridNeighbors ==
    /\ \E x \in 0..(width - 1), y \in 0..(height - 1) :
          call' = Called("get_neighbors", x, y, 0, get_neighbors(grid, x, y))
    /\ UNCHANGED grid
    /\ GridOnly

GridIterate ==
    /\ call' = Called("iter", 0, 0, 0, iter(grid))
    /\ UNCHANGED grid
    /\ GridOnly

GridNext ==
    \/ GridGet
    \/ GridGetMut
    \/ GridReplace
    \/ GridSet
    \/ GridNeighborPosition
    \/ GridNeighbor
    \/ GridNeighborPositions
    \/ GridNeighbors
    \/ GridIterate

GridSpec == GridInit /\ [][GridNext]_vars

NeighborTestSpec == NeighborTestInit /\ [][GridNext]_vars

\* ------------------------------------------------------- SuperState calls

\* the ids of a set in ascending order
RECURSIVE Ascending(_)
Ascending(ids) ==
    IF ids = {} THEN <<>>
    ELSE LET least == CHOOSE i \in ids : \A j \in ids : i <= j
         IN <<least>> \o Ascending(ids \ {least})

\* one SuperState of some catalogue, holding any of its prototypes in the order
\* of their ids, kept as the only cell of a grid; no wave is built on it
SuperStateInit ==
    /\ width = 1
    /\ height = 1
    /\ cat \in Catalogues
    /\ \E ids \in SUBSET DOMAIN cat :
          grid = <<[possible |-> Ascending(ids), base_entropy |-> Len(cat),
                    entropy |-> Cardinality(ids)]>>
    /\ call = [name |-> "new", x |-> 0, y |-> 0, arg |-> 0, result |-> None,
               initializer |-> <<>>, writes |-> 0]
    /\ build = "any"
    /\ grid_base = <<>>
    /\ stack = <<>>
    /\ data = <<>>
    /\ collapsed = <<>>
    /\ last_rollback = 0
    /\ rollback_penalty = 0
    /\ pc = "idle"
    /\ worked = FALSE
    /\ op = "new"
    /\ ret = None
    /\ tick_ret = FALSE
    /\ done_at_call = FALSE
    /\ ev = NoEvent
    /\ app = NoApp
    /\ events = <<>>

\* SuperState::tick, called once with any constraint sets
SuperStateTick ==
    /\ call.name = "new"
    /\ \E neighbors \in [DirSet -> SUBSET DOMAIN cat] :
          /\ grid' = <<SuperState_tick(grid[1], neighbors)>>
          /\ call' = Called("tick", 0, 0, [self |-> grid[1], neighbors |-> neighbors], None)
    /\ GridOnly

SuperStateSpec == SuperStateInit /\ [][SuperStateTick]_vars

\* ------------------------------------------------ Tile::from_config, from_image
\* A tile is [id, value, neighbors, weight], neighbors[d] being a Vec<u64>.  An
\* image is a number; the bitmap given to from_image is the grid of its patches.

\* DefaultHasher over the pixels: different images, different ids
hash(image) == (image * 16) + 5

Tile_new(id, value) ==
    [id |-> id, value |-> value, neighbors |-> [d \in DirSet |-> <<>>], weight |-> 1]

new_image_tile(image) == Tile_new(hash(image), image)

\* String::chars().rev().collect()
rev(key) == [i \in 1..Len(key) |-> key[Len(key) + 1 - i]]

\* a neighbour population that compares the keys of the same side
from_config_same_side(configs) ==
    LET slots == [i \in DOMAIN configs |->
                    [id |-> hash(configs[i].image), neighbors |-> configs[i].slots]]
        order == [i \in DOMAIN configs |-> i]
        pushed(index, direction) ==
            LET match(i) ==
                    slots[i].neighbors[direction] = rev(slots[index].neighbors[direction])
                found == SelectSeq(order, match)
            IN [k \in DOMAIN found |-> slots[found[k]].id]
    IN [index \in DOMAIN configs |->
          [new_image_tile(configs[index].image) EXCEPT
              !.neighbors = [direction \in DirSet |-> pushed(index, direction)]]]

\* Tile::from_config: output[index].neighbors[direction] receives the id of
\* every entry whose key on that side is the reversed key of output[index]'s
\* opposite side
from_config(configs) ==
    LET slots == [i \in DOMAIN configs |->
                    [id |-> hash(configs[i].image), neighbors |-> configs[i].slots]]
        order == [i \in DOMAIN configs |-> i]
        pushed(index, direction) ==
            LET match(i) ==
                    slots[i].neighbors[direction] =
                        rev(slots[index].neighbors[invert(direction)])
                found == SelectSeq(order, match)
            IN [k \in DOMAIN found |-> slots[found[k]].id]
    IN [index \in DOMAIN configs |->
          [new_image_tile(configs[index].image) EXCEPT
              !.neighbors = [direction \in DirSet |-> pushed(index, direction)]]]

\* the initializer of from_image's Grid::new at one cell: insert() puts a new
\* tile in the place of the one already there, then the weight is incremented
generate_tile(unique, image) ==
    LET new_tile == new_image_tile(image)
        tile_id == new_tile.id
    IN [k \in DOMAIN unique \cup {tile_id} |->
          IF k = tile_id THEN [new_tile EXCEPT !.weight = @ + 1] ELSE unique[k]]

RECURSIVE generate(_, _, _)
generate(unique, source, i) ==
    IF i > Len(source) THEN unique
    ELSE generate(generate_tile(unique, source[i]), source, i + 1)

\* the ids of a set, as the sorted Vec that push-and-sort leaves
RECURSIVE Sorted(_)
Sorted(ids) ==
    IF ids = {} THEN <<>>
    ELSE LET least == CHOOSE i \in ids : \A j \in ids : i <= j
         IN <<least>> \o Sorted(ids \ {least})

\* "Populating neighbors": every id seen next to a cell holding the tile
populate(unique, ids) ==
    [k \in DOMAIN unique |->
        [unique[k] EXCEPT
            !.neighbors = [direction \in DirSet |->
                Sorted({unwrap(get_neighbor(ids, p[1], p[2], direction)) :
                          p \in {q \in AllPositions :
                                   /\ unwrap(get(ids, q[1], q[2])) = k
                                   /\ get_neighbor(ids, q[1], q[2], direction) # None}})]]]

\* the sequences that hold every element of a set once
Orders(keys) ==
    {o \in [1..Cardinality(keys) -> keys] : \A i, j \in DOMAIN o : o[i] = o[j] => i = j}

\* Tile::from_image on the grid of patches: unique.values() comes in any order
from_image(source) ==
    LET ids == [i \in DOMAIN source |-> hash(source[i])]
        unique == populate(generate(<<>>, source, 1), ids)
    IN {[i \in DOMAIN o |-> unique[o[i]]] : o \in Orders(DOMAIN unique)}

\* the keys of the slots: strings as sequences of characters
Keys == {<<"a", "b">>, <<"b", "a">>}

\* nothing but the call is of interest: no wave is built
NoWave ==
    /\ cat = Empty
    /\ build = "any"
    /\ grid_base = <<>>
    /\ stack = <<>>
    /\ data = <<>>
    /\ collapsed = <<>>
    /\ last_rollback = 0
    /\ rollback_penalty = 0
    /\ pc = "idle"
    /\ worked = FALSE
    /\ op = "new"
    /\ ret = None
    /\ tick_ret = FALSE
    /\ done_at_call = FALSE
    /\ ev = NoEvent
    /\ app = NoApp
    /\ events = <<>>

\* the input of a constructor: a list of configurations, each with an image of
\* its own (an id is unique within a catalogue), or a bitmap cut into its grid
\* of patches
TileInit ==
    /\ NoWave
    /\ \/ /\ width = 1
          /\ height = 1
          /\ grid = <<>>
          /\ \E n \in 1..MaxConfigs :
                \E configs \in [1..n -> [image : 1..MaxConfigs, slots : [DirSet -> Keys]]] :
                    /\ \A i, j \in 1..n : configs[i].image = configs[j].image => i = j
                    /\ call = [name |-> "configs", arg |-> configs, result |-> <<>>]
       \/ /\ width \in 1..MaxWidth
          /\ height \in 1..MaxHeight
          /\ width * height <= MaxCells
          /\ grid \in [1..(width * height) -> 1..MaxPatches]
          /\ call = [name |-> "image", arg |-> grid, result |-> <<>>]

FromConfig ==
    /\ call.name = "configs"
    /\ call' = [call EXCEPT !.name = "from_config", !.result = from_config(call.arg)]
    /\ UNCHANGED grid
    /\ GridOnly

FromImage ==
    /\ call.name = "image"
    /\ \E output \in from_image(grid) :
          call' = [call EXCEPT !.name = "from_image", !.result = output]
    /\ UNCHANGED grid
    /\ GridOnly

TileSpec == TileInit /\ [][FromConfig \/ FromImage]_vars

\* ------------------------------------------------------- Wave::rollback
\* rollback(count) applied to the waves the driver reaches, between two calls or
\* between two iterations of tick()'s loop.

RollbackCall ==
    /\ pc # "panicked"
    /\ call = NoCall
    /\ \E count \in 0..MaxCount :
          /\ Becomes(rollback(Self, count))
          /\ call' = [name |-> "rollback", arg |-> [self |-> Self, count |-> count]]
    /\ UNCHANGED <<pc, worked, op, ret, tick_ret, done_at_call, app, events>>

\* one pass of rollback()'s loop up to the end of its rollback_propegate chain:
\* the top entry is popped and rollback_propegate(x, y, None) runs
RollbackPropegateCall ==
    /\ pc # "panicked"
    /\ call = NoCall
    /\ collapsed # <<>>
    /\ LET top == collapsed[Len(collapsed)]
           popped == [Self EXCEPT !.collapsed = SubSeq(@, 1, Len(@) - 1)]
       IN /\ Becomes(rollback_propegate(popped, top[1][1], top[1][2], None))
          /\ call' = [name |-> "rollback_propegate", arg |-> [self |-> Self, at |-> top[1]]]
    /\ UNCHANGED <<pc, worked, op, ret, tick_ret, done_at_call, app, events>>

RollbackNext == (call = NoCall /\ Drive) \/ RollbackCall \/ RollbackPropegateCall

RollbackSpec == Init /\ [][RollbackNext]_vars

\* ------------------------------------------------------------ properties

CellOf(g, p) == unwrap(get(g, p[1], p[2]))
Cell(p) == CellOf(grid, p)
Collapsed(p) == Cell(p).entropy = 1
AllCollapsed == \A p \in AllPositions : Collapsed(p)
Uncollapsed == {p \in AllPositions : ~Collapsed(p)}

\* every orthogonally adjacent pair of collapsed cells satisfies the adjacency
\* model in both directions
Consistent ==
    \A a \in AllPositions : \A d \in DirSet :
        LET n == get_neighbor_position(a[1], a[2], d)
            b == unwrap(n)
        IN n # None =>
            \A alpha \in Ids(Cell(a)) : \A beta \in Ids(Cell(b)) :
                /\ beta \in cat[alpha].neighbors[d]
                /\ alpha \in cat[beta].neighbors[invert(d)]

\* C1: local consistency at completion - for a symmetric catalogue, whenever
\* done() is true between public calls every cell is collapsed (entropy 1) and
\* every orthogonally adjacent pair satisfies the adjacency model both ways.
C1_LocalConsistency ==
    (pc = "idle" /\ Symmetric(cat) /\ done) => (AllCollapsed /\ Consistent)

\* C2: remaining() is the uncollapsed cell count - between public calls
\* remaining() equals the number of cells whose entropy is not 1, and done()
\* is true exactly when every cell is collapsed.
C2_RemainingIsUncollapsed ==
    pc = "idle" =>
        /\ remaining = Cardinality(Uncollapsed)
        /\ done <=> AllCollapsed

\* the assignments of one prototype to every cell that satisfy the adjacency
\* model across every orthogonally adjacent pair
Tilings ==
    {t \in [AllPositions -> DOMAIN cat] :
        \A a \in AllPositions : \A d \in DirSet :
            LET n == get_neighbor_position(a[1], a[2], d)
            IN n # None => t[unwrap(n)] \in cat[t[a]].neighbors[d]}

Tileable == Tilings # {}

Terminated == pc = "idle" /\ done /\ remaining = 0

\* C3: termination - for a catalogue that admits at least one tiling of the
\* grid, the driver that calls tick() or tick_once() while !done() eventually
\* reaches a state where done() is true and remaining() is 0.
C3_Termination == Tileable => <>Terminated

\* C4: single-prototype tiling completes - with a catalogue of exactly one
\* prototype the loop `while !done() { tick() }` terminates with done() true,
\* remaining() 0 and every cell collapsed to that prototype, with no rollback.
C4_SinglePrototypeCompletes ==
    (Len(cat) = 1 /\ [](op \in {"new", "tick"})) =>
        <>(/\ Terminated
           /\ \A p \in AllPositions : Cell(p).possible = <<1>>
           /\ rollback_penalty = 0
           /\ last_rollback = 0)

\* C6: tick() returns whether any work was done - true iff the call processed
\* at least one queued cell or performed an observation, false when there was
\* nothing to do; so the first tick() on a fresh wave with uncollapsed cells
\* returns true.
C6_TickReturnsWorked ==
    (pc = "idle" /\ op = "tick") =>
        (tick_ret <=> (worked \/ ev.mc = "some"))

\* C7: idempotence of tick at termination - a tick() called in a state where
\* done() is true returns false and leaves grid, collapsed and the rollback
\* counters unchanged.
C7_TickIdempotentWhenDone ==
    [][(op' = "tick" /\ done_at_call') =>
          /\ grid' = grid
          /\ collapsed' = collapsed
          /\ last_rollback' = last_rollback
          /\ rollback_penalty' = rollback_penalty
          /\ (pc' = "idle" => tick_ret' = FALSE)]_vars

\* C8: tick_once() - with a non-empty queue it removes exactly the front
\* position, runs tick_cell on it, performs no observation and returns that
\* position; with an empty queue it performs one observation via
\* maybe_collapse and returns its result; it returns none only when there is
\* no queued cell and no cell with entropy > 1.
C8_TickOnce ==
    [][op' = "tick_once" =>
          /\ stack # <<>> =>
                /\ ev'.cell = Some(Head(stack))
                /\ ev'.mc = "not_called"
                /\ pc' = "idle"
                /\ ret' = Some(Head(stack))
                /\ Cell(Head(stack)).entropy = 1 =>
                      (stack' = Tail(stack) /\ grid' = grid)
          /\ stack = <<>> =>
                /\ ev'.cell = None
                /\ ev'.mc # "not_called"
                /\ pc' = "idle"
                /\ ret' = None <=> ev'.mc = "none"
                /\ ret' # None => (Cell(unwrap(ret')).entropy > 1
                                   /\ CellOf(grid', unwrap(ret')).entropy = 1)
          /\ (pc' = "idle" /\ ret' = None) =>
                (stack = <<>> /\ \A p \in AllPositions : Cell(p).entropy <= 1)]_vars

\* C9: maybe_collapse() returns none iff no cell has entropy > 1, and then
\* changes no cell; otherwise it returns a position whose cell had entropy > 1
\* before and has entropy 1 after, holding a prototype of its possible set, and
\* remaining() has decreased by exactly 1.  On a 1x1 grid (of a cell with
\* entropy > 1) the first call returns (0,0), the second none with done() true.
C9_MaybeCollapse ==
    [][op' = "maybe_collapse" =>
          /\ ret' = None <=> (\A p \in AllPositions : Cell(p).entropy <= 1)
          /\ ret' = None => grid' = grid
          /\ ret' # None =>
                /\ Cell(unwrap(ret')).entropy > 1
                /\ CellOf(grid', unwrap(ret')).entropy = 1
                /\ Ids(CellOf(grid', unwrap(ret'))) \subseteq Ids(Cell(unwrap(ret')))
                /\ remaining' = remaining - 1
          /\ (size = 1 /\ Len(cat) > 1 /\ op = "new") => ret' = Some(<<0, 0>>)
          /\ (size = 1 /\ op = "maybe_collapse" /\ ret # None) => (ret' = None /\ done')
      ]_vars

\* C10: entropy monotonicity outside rollback - in a step that handles no
\* contradiction (propagation, observation, mark) no cell's entropy increases
\* and every cell's possible set afterwards is a subset of the one before.
C10_EntropyMonotone ==
    [][~ev'.contra =>
          \A p \in AllPositions :
              /\ CellOf(grid', p).entropy <= Cell(p).entropy
              /\ Ids(CellOf(grid', p)) \subseteq Ids(Cell(p))]_vars

\* a propagation step without contradiction has narrowed a cell
C10_Witness ==
    /\ ev.cell # None
    /\ ~ev.contra
    /\ Cell(unwrap(ev.cell)).entropy < Cell(unwrap(ev.cell)).base_entropy
    /\ \E p \in AllPositions : Cell(p).entropy > 1

\* C11: SuperState invariants - every cell has 0 <= entropy <= base_entropy,
\* its cached entropy is the length of possible, possible holds no prototype
\* id twice, and base_entropy is what it was at construction.
C11_SuperStateInvariants ==
    \A p \in AllPositions :
        LET c == Cell(p)
        IN /\ 0 <= c.entropy
           /\ c.entropy <= c.base_entropy
           /\ c.entropy = Len(c.possible)
           /\ Cardinality(Ids(c)) = Len(c.possible)
           /\ c.base_entropy = CellOf(grid_base, p).base_entropy
           /\ c.base_entropy = Len(cat)

\* propagation has narrowed a cell to fewer prototypes, more than one
C11_Witness ==
    \E p \in AllPositions :
        Cell(p).entropy > 1 /\ Cell(p).entropy < Cell(p).base_entropy

InQueue(p) == \E i \in DOMAIN stack : stack[i] = p
Pending(p) == unwrap(get(data, p[1], p[2]))

\* C12: queue/pending agreement - between public calls a position is in the
\* propagation queue if and only if its pending entry is Some.
C12_QueuePendingAgree ==
    pc = "idle" => \A p \in AllPositions : InQueue(p) <=> Pending(p) # None

\* C13: reset semantics - when contradiction handling took the full-reset
\* branch, on return grid equals grid_base at every position, collapsed is
\* empty and rollback_penalty is 0.5 (one half).
C13_ResetSemantics ==
    ev.branch = "reset" =>
        /\ \A p \in AllPositions : Cell(p) = CellOf(grid_base, p)
        /\ collapsed = <<>>
        /\ rollback_penalty = 1

\* a contradiction was handled by the full-reset branch and the call went on
C13_Witness == ev.contra /\ ev.branch = "reset" /\ ~ev.panic /\ pc = "idle"

\* C14: contradictions are never surfaced - with a template of base entropy
\* >= 1, when a public call has returned no cell has entropy 0, and no call
\* fails because of a contradiction.
C14_ContradictionsNotSurfaced ==
    (Len(cat) >= 1 /\ pc # "tick") =>
        /\ pc = "idle"
        /\ \A p \in AllPositions : Cell(p).entropy >= 1

\* C15: EmptyCatalogue is rejected at construction - Wave::new never yields a
\* wave whose template has an empty possible set (cells starting at entropy 0).
C15_EmptyCatalogueRejected ==
    \A p \in AllPositions : CellOf(grid_base, p).base_entropy >= 1

\* the cell of row y and column x, the one Grid::new filled with initializer(x, y)
At(g, x, y) == g[(y * width) + x + 1]

InRange(x, y) == x < width /\ y < height

\* C16: get, get_mut and replace return none for every (x, y) with x >= width or
\* y >= height, also where x + y * width is still smaller than width * height, and
\* replace leaves the grid unchanged then; for in-range (x, y) they address
\* exactly cell (x, y): they return it, and replace overwrites it and no other.
C16_OutOfRangeIsNone ==
    [][call'.name \in {"get", "get_mut", "replace"} =>
         LET x == call'.x
             y == call'.y
         IN IF InRange(x, y)
            THEN /\ call'.result = Some(At(grid, x, y))
                 /\ grid' = IF call'.name = "replace"
                            THEN [grid EXCEPT ![(y * width) + x + 1] = call'.arg]
                            ELSE grid
            ELSE call'.result = None /\ grid' = grid]_vars

\* C17: set(x, y, v) with x >= width or y >= height returns an error and leaves
\* every cell unchanged; with in-range coordinates it succeeds and changes
\* exactly cell (x, y) to v.
C17_SetChecksBounds ==
    [][call'.name = "set" =>
         LET x == call'.x
             y == call'.y
         IN IF InRange(x, y)
            THEN /\ call'.result = FALSE
                 /\ At(grid', x, y) = call'.arg
                 /\ \A i \in 1..Len(grid) : i # (y * width) + x + 1 => grid'[i] = grid[i]
                 /\ Len(grid') = Len(grid)
            ELSE call'.result = TRUE /\ grid' = grid]_vars

\* a set was refused although the linear index of its coordinates lies in the data
C17_Witness ==
    /\ call.name = "set"
    /\ call.x >= width
    /\ call.x + (call.y * width) < size
    /\ call.result = TRUE

\* the position one step from (x, y), in the integers
Target(x, y, direction) ==
    CASE direction = "Up" -> <<x, y - 1>>
      [] direction = "Right" -> <<x + 1, y>>
      [] direction = "Down" -> <<x, y + 1>>
      [] direction = "Left" -> <<x - 1, y>>

Inside(p) == p[1] \in 0..(width - 1) /\ p[2] \in 0..(height - 1)

NeighborPosition(x, y, direction) ==
    IF Inside(Target(x, y, direction)) THEN Some(Target(x, y, direction)) ELSE None

NeighborCell(g, x, y, direction) ==
    IF Inside(Target(x, y, direction))
    THEN Some(At(g, Target(x, y, direction)[1], Target(x, y, direction)[2]))
    ELSE None

\* C18: for every in-range (x, y), get_neighbor_position, get_neighbor,
\* get_neighbor_positions and get_neighbors yield Up -> (x, y-1), Right -> (x+1, y),
\* Down -> (x, y+1), Left -> (x-1, y) when that position lies inside the grid and
\* none when it lies outside: no wrap to the opposite edge, no spill into the
\* adjacent row.
C18_NeighborsDoNotWrap ==
    [][InRange(call'.x, call'.y) =>
         LET x == call'.x
             y == call'.y
         IN /\ call'.name = "get_neighbor_position" =>
                  call'.result = NeighborPosition(x, y, call'.arg)
            /\ call'.name = "get_neighbor" =>
                  call'.result = NeighborCell(grid, x, y, call'.arg)
            /\ call'.name = "get_neighbor_positions" =>
                  \A d \in DirSet : call'.result[d] = NeighborPosition(x, y, d)
            /\ call'.name = "get_neighbors" =>
                  \A d \in DirSet : call'.result[d] = NeighborCell(grid, x, y, d)]_vars

\* a lookup to the right from the last column of a row that has a row below it
C18_Witness ==
    /\ call.name = "get_neighbor"
    /\ InRange(call.x, call.y)
    /\ call.arg = "Right"
    /\ call.x + 1 = width
    /\ call.y + 1 < height
    /\ call.result = None

\* the positions in row-major order: (0,0), (1,0), ..., (w-1,0), (0,1), ...
RowMajor(w, h) == [i \in 1..(w * h) |-> <<(i - 1) % w, (i - 1) \div w>>]

\* C19: Grid::new(w, h, init) stores init(x, y) at every in-range (x, y) so that
\* get(x, y) returns it, size() = w * h, and iteration yields exactly w * h items
\* (x, y, cell) in row-major order with cell = get(x, y).
C19_NewAndIterate ==
    /\ call.name = "new" =>
          /\ \A p \in Positions(width, height) :
                get(grid, p[1], p[2]) = Some(call.initializer[p])
          /\ size = width * height
          /\ Len(grid) = width * height
    /\ call.name = "iter" =>
          /\ Len(call.result) = width * height
          /\ \A i \in 1..Len(call.result) :
                LET item == call.result[i]
                IN /\ <<item[1], item[2]>> = RowMajor(width, height)[i]
                   /\ Some(item[3]) = get(grid, item[1], item[2])

\* a grid of at least two rows and two columns whose initializer tells (1, 0)
\* from (0, 1), iterated to the end
C19_Witness ==
    /\ call.name = "iter"
    /\ width >= 2
    /\ height >= 2
    /\ call.initializer[<<1, 0>>] # call.initializer[<<0, 1>>]
    /\ call.writes = 0
    /\ call.result[2] = <<1, 0, call.initializer[<<1, 0>>]>>

Renderers == 1..app.renderers
IsTick(i) == events[i][1] = "Tick"
Emitted(event, r) == {i \in DOMAIN events : events[i] = <<event, r>>}

\* C20: in WfcApp::run every renderer is sent Started at most once, and exactly
\* once before the first tick and before any other event; before every tick it
\* is sent a Progress that no other tick follows; Completed is sent at most
\* once, only in a state where done() is true, and no tick comes after it.
C20_EventOrdering ==
    \A r \in Renderers :
        /\ Cardinality(Emitted("Started", r)) <= 1
        /\ Cardinality(Emitted("Completed", r)) <= 1
        /\ \A i \in DOMAIN events :
              /\ (IsTick(i) \/ events[i] \in {<<"Progress", r>>, <<"Completed", r>>}) =>
                    \E j \in Emitted("Started", r) : j < i
              /\ IsTick(i) =>
                    \E j \in Emitted("Progress", r) :
                       j < i /\ \A k \in (j + 1)..(i - 1) : ~IsTick(k)
              /\ events[i] = <<"Completed", r>> =>
                    /\ pc = "idle"
                    /\ remaining = 0
                    /\ \A k \in DOMAIN events : IsTick(k) => k < i

\* run() has finished with two renderers after at least two ticks
C20_Witness ==
    /\ app.at = "finished"
    /\ app.renderers = 2
    /\ Ticks >= 2
    /\ Emitted("Completed", 2) # {}

Around(up, right, down, left) ==
    [d \in DirSet |->
        CASE d = "Up" -> up [] d = "Right" -> right [] d = "Down" -> down [] d = "Left" -> left]

\* get_neighbors(x, y) was called on the grid as Grid::new left it
NeighborsOf(x, y) ==
    call.name = "get_neighbors" /\ call.writes = 0 /\ call.x = x /\ call.y = y

Adjacent(p, q) == Abs(p[1] - q[1]) + Abs(p[2] - q[2]) = 1

\* the 4-connected component of the cells `area` within `open`
RECURSIVE Component(_, _)
Component(open, area) ==
    LET more == {q \in open \ area : \E p \in area : Adjacent(p, q)}
    IN IF more = {} THEN area ELSE Component(open, area \cup more)

\* the position of the newest entry of a collapse history
Newest(c) == c[Len(c)][1]

\* C22: whenever maybe_collapse observes a cell, that cell belongs to a smallest
\* 4-connected component of the cells with entropy > 1, and its entropy is the
\* minimum among the cells of that component.
C22_ObservationPolicy ==
    [][ev'.mc = "some" =>
         LET p == Newest(collapsed')
             open == {q \in AllPositions : Cell(q).entropy > 1}
         IN /\ p \in open
            /\ \A q \in open :
                  Cardinality(Component(open, {p})) <= Cardinality(Component(open, {q}))
            /\ \A q \in Component(open, {p}) : Cell(p).entropy <= Cell(q).entropy]_vars

\* an observation was made while the cells of entropy > 1 formed components of
\* different sizes and entropies: the cells left and right of (1,0), which was
\* observed before, are reduced, and (0,0) is a component of its own
C22_Witness ==
    /\ ev.mc = "some"
    /\ Len(collapsed) = 2
    /\ collapsed[1] = <<<<1, 0>>, Explicit>>
    /\ collapsed[2] = <<<<0, 0>>, Explicit>>
    /\ Cell(<<2, 0>>).entropy = 2
    /\ Cell(<<3, 0>>).entropy = 3

\* prototype p meets the constraint sets: every direction with a non-empty set
\* shares a prototype with p's neighbours in that direction
Meets(p, neighbours) ==
    \A d \in DirSet : neighbours[d] # {} => (cat[p].neighbors[d] \cap neighbours[d]) # {}

\* C23: SuperState::tick(neighbours) on a cell with entropy > 1 retains exactly
\* the prototypes that meet the constraint sets, in their previous order, and the
\* cached entropy becomes the new length; on a cell with entropy <= 1 it changes
\* nothing.
C23_TickFilters ==
    [][call'.name = "tick" =>
         LET before == grid[1]
             after == grid'[1]
         IN IF before.entropy > 1
            THEN /\ after.possible =
                       SelectSeq(before.possible, LAMBDA p : Meets(p, call'.arg.neighbors))
                 /\ after.entropy = Len(after.possible)
                 /\ after.base_entropy = before.base_entropy
            ELSE after = before]_vars

\* a tick with a direction that has no constraint has removed a prototype of
\* the cell and kept others
C23_Witness ==
    /\ call.name = "tick"
    /\ \E d \in DirSet : call.arg.neighbors[d] = {}
    /\ grid[1].entropy > 1
    /\ grid[1].entropy < call.arg.self.entropy

\* the step handled a contradiction and returned
Handled(branches) == ev'.contra /\ ~ev'.panic /\ ev'.branch \in branches

\* `grid.size() - remaining()` as the contradiction handling computes it: the
\* history with the Implicit entry of the contradicting cell
Progress == Len(collapsed) + 1

\* C24: the penalty is updated exactly once per contradiction (the reset branch,
\* which sets it to 1, apart): with progress <= last_rollback it grows by exactly
\* 1; with progress > last_rollback, last_rollback becomes progress and the
\* penalty 1.  The penalty is counted in the unit of the code's 0.5.
C24_PenaltyRule ==
    [][Handled({"rollback", "conflict"}) =>
         IF Progress <= last_rollback
         THEN rollback_penalty' = rollback_penalty + 1 /\ last_rollback' = last_rollback
         ELSE rollback_penalty' = 1 /\ last_rollback' = Progress]_vars

\* the penalty the rule of C24 gives the contradiction being handled
RulePenalty == IF Progress <= last_rollback THEN rollback_penalty + 1 ELSE 1

\* C25: whenever a contradiction is resolved by rollback rather than reset, the
\* number of Explicit entries popped from collapsed equals the current
\* rollback_penalty, wherever in the grid the contradiction occurred.
C25_RollbackAmount ==
    [][Handled({"rollback", "conflict"}) =>
         ExplicitCount(collapsed) - ExplicitCount(collapsed') = RulePenalty]_vars

\* C26: on every contradiction at which collapsed holds fewer Explicit entries than
\* rollback_penalty a full reset is performed, and when contradiction handling
\* returns every pending entry is None, the propagation queue is empty, collapsed
\* is empty and last_rollback = 0.
C26_ResetBranch ==
    [][(ev'.contra /\ ~ev'.panic /\ ExplicitCount(collapsed) < RulePenalty) =>
         /\ ev'.branch = "reset"
         /\ \A i \in DOMAIN data' : data'[i] = None
         /\ stack' = <<>>
         /\ collapsed' = <<>>
         /\ last_rollback' = 0]_vars

\* C27: when a contradiction has been resolved by rollback, on return the
\* propagation queue contains every grid position exactly once, in row-major
\* order, and every pending entry is None.
C27_QueueRebuilt ==
    (ev.contra /\ ~ev.panic /\ ev.branch \in {"rollback", "conflict"}) =>
        /\ stack = RowMajor(width, height)
        /\ \A p \in AllPositions : Pending(p) = None

\* the fallback rollback has run on the five-cell row and queued its cells again
C27_Witness ==
    /\ ev.contra /\ ~ev.panic /\ ev.branch = "rollback"
    /\ Len(stack) = Wide

\* the entries rollback() popped: those of the history before the call above
\* what is left of it
Popped == {i \in DOMAIN call.arg.self.collapsed : i > Len(collapsed)}

\* C28: rollback(k) for k >= 1 pops entries from the top of collapsed until
\* exactly k Explicit entries have been popped or the stack is empty, Implicit
\* entries on the way included and no entry below the k-th Explicit one; the
\* cell of every popped position equals its grid_base value afterwards; the
\* entries that remain are unchanged and in the same order; rollback(0) changes
\* nothing.
C28_Rollback ==
    call.name = "rollback" =>
        LET before == call.arg.self
            k == call.arg.count
            explicit == {i \in Popped : before.collapsed[i][2] = Explicit}
        IN IF k = 0
           THEN Self = before
           ELSE /\ Len(collapsed) <= Len(before.collapsed)
                /\ collapsed = SubSeq(before.collapsed, 1, Len(collapsed))
                /\ IF ExplicitCount(before.collapsed) < k
                   THEN collapsed = <<>>
                   ELSE /\ Cardinality(explicit) = k
                        /\ before.collapsed[Len(collapsed) + 1][2] = Explicit
                /\ \A i \in Popped :
                      Cell(before.collapsed[i][1]) = CellOf(grid_base, before.collapsed[i][1])

\* rollback(1) popped an Implicit entry and the Explicit one below it, reset a
\* cell that was collapsed, and left an older entry on the history
C28_Witness ==
    /\ call.name = "rollback"
    /\ call.arg.count = 1
    /\ collapsed # <<>>
    /\ \E i \in Popped :
          /\ call.arg.self.collapsed[i][2] = Implicit
          /\ CellOf(call.arg.self.grid, call.arg.self.collapsed[i][1]).entropy = 1
          /\ Cell(call.arg.self.collapsed[i][1]).entropy > 1

\* C29: in every reachable state collapsed.len() <= grid.size(), so the
\* subtraction grid.size() - collapsed.len() in remaining() never underflows.
C29_HistoryWithinGrid == Len(collapsed) <= size /\ ~Underflows(Self)

\* C30: one outstanding work item per cell - in every state observable between
\* public calls the propagation queue contains no position more than once.
C30_QueueHoldsNoDuplicate ==
    pc = "idle" => \A i, j \in DOMAIN stack : stack[i] = stack[j] => i = j

\* the constraints tick_cell applies to the cell at p: the pending snapshot, or
\* the live neighbourhood where there is none
Constraints(p) ==
    IF Pending(p) = None
    THEN [d \in DirSet |->
            IF Inside(Target(p[1], p[2], d))
            THEN Ids(Cell(Target(p[1], p[2], d))) ELSE {}]
    ELSE Pending(p)[1]

\* the prototypes of the cell at p that pass Tile::test against its constraints
Kept(p) == {id \in Ids(Cell(p)) : Meets(id, Constraints(p))}

InGrid(p) == {d \in DirSet : Inside(Target(p[1], p[2], d))}

\* C31: tick_cell outcome after propagation - if the cell's entropy changed and
\* is not zero, the cell is observed at once iff it is collapsing() and no in-grid
\* neighbour is, and otherwise mark enqueues its in-grid neighbours; if the
\* entropy did not change, no neighbour's pending entry changes and nothing is
\* enqueued; a cell whose entropy is 1 at entry is left untouched.
C31_TickCellOutcome ==
    [][\A p \in AllPositions : (ev'.cell = Some(p) /\ ~ev'.panic) =>
         LET old == Cell(p).entropy
             new == Cardinality(Kept(p))
             eager ==
                 /\ new # Cell(p).base_entropy
                 /\ \A d \in InGrid(p) : ~collapsing(Cell(Target(p[1], p[2], d)))
             observed ==
                 /\ Len(collapsed') > Len(collapsed)
                 /\ collapsed'[Len(collapsed')] = <<p, Explicit>>
         IN IF old = 1
            THEN Cell(p)' = Cell(p)
            ELSE IF new = old
            THEN /\ stack' = Tail(stack)
                 /\ \A d \in InGrid(p) :
                       Pending(Target(p[1], p[2], d))' = Pending(Target(p[1], p[2], d))
            ELSE IF new # 0
            THEN /\ observed <=> eager
                 /\ ~eager =>
                       \A d \in InGrid(p) :
                           /\ InQueue(Target(p[1], p[2], d))'
                           /\ Pending(Target(p[1], p[2], d))' # None
                           /\ Pending(Target(p[1], p[2], d))'[1][invert(d)] = Kept(p)
            ELSE TRUE]_vars

\* the cells one rollback_propegate chain entered, in the order of the calls:
\* every call pushes its cell onto the back of the queue
Entered == SubSeq(stack, Len(call.arg.self.stack) + 1, Len(stack))

C33_GridBaseFrozen ==
    /\ Len(grid_base) = width * height
    /\ \A p \in AllPositions : CellOf(grid_base, p) = Template

\* a contradiction has been rolled back from grid_base and the run has gone on:
\* the grid differs from grid_base again
C33_Witness ==
    /\ last_rollback > 0
    /\ collapsed # <<>>
    /\ \E p \in AllPositions : Cell(p) # CellOf(grid_base, p)

\* the ids a tile lists on one side
Listed(tile, d) == {tile.neighbors[d][i] : i \in DOMAIN tile.neighbors[d]}

\* C34: in the catalogue returned by Tile::from_config, prototype b's id is
\* listed in a.neighbours[d] if and only if a.slots[d] equals the
\* character-reversal of b.slots[d.invert()], for every pair of configured
\* prototypes a, b and every direction d.
C34_ConfigAdjacency ==
    call.name = "from_config" =>
        \A a, b \in DOMAIN call.result : \A d \in DirSet :
            call.result[b].id \in Listed(call.result[a], d)
                <=> call.arg[a].slots[d] = rev(call.arg[b].slots[invert(d)])

\* C35: in the catalogue returned by Tile::from_image, every distinct patch
\* yields exactly one prototype and its weight equals the number of source-grid
\* cells that contain that patch.
C35_ImageWeights ==
    call.name = "from_image" =>
        \A patch \in {call.arg[i] : i \in DOMAIN call.arg} :
            /\ Cardinality({t \in DOMAIN call.result : call.result[t].value = patch}) = 1
            /\ \A t \in DOMAIN call.result :
                  call.result[t].value = patch =>
                      call.result[t].weight =
                          Cardinality({i \in DOMAIN call.arg : call.arg[i] = patch})

\* C36: in every catalogue produced by Tile::from_config or Tile::from_image,
\* for all prototypes a, b and every direction d, b in a.neighbours[d] implies
\* a in b.neighbours[d.invert()].
C36_AdjacencySymmetric ==
    call.name \in {"from_config", "from_image"} =>
        \A a, b \in DOMAIN call.result : \A d \in DirSet :
            call.result[b].id \in Listed(call.result[a], d)
                => call.result[a].id \in Listed(call.result[b], invert(d))

\* from_config has listed a second prototype next to a first one
C36_Witness ==
    /\ call.name = "from_config"
    /\ \E a, b \in DOMAIN call.result : \E d \in DirSet :
          /\ a # b
          /\ call.result[b].id \in Listed(call.result[a], d)
          /\ call.arg[a].slots # call.arg[b].slots

\* the grid is the checkerboard that has prototype `first` at (0, 0)
Chequered(first) ==
    \A p \in AllPositions :
        Cell(p).possible = <<IF (p[1] + p[2]) % 2 = 0 THEN first ELSE 3 - first>>

\* C37: two-prototype checkerboard - with catalogue {A, B}, both of weight 1,
\* each the only neighbour of the other in every direction, on a 4 x 4 grid
\* every run reaches done() with every cell collapsed and every orthogonally
\* adjacent pair made of one A and one B: the final grid is one of the two
\* global checkerboards.
C37_Checkerboard ==
    <>(/\ Terminated
       /\ AllCollapsed
       /\ \A p \in AllPositions : \A d \in InGrid(p) :
             Ids(Cell(p)) # Ids(Cell(Target(p[1], p[2], d)))
       /\ Chequered(1) \/ Chequered(2))

\* the driver has finished on the checkerboard with B at (0, 0)
C37_Witness ==
    /\ width = BoardSize /\ height = BoardSize
    /\ Terminated
    /\ Len(collapsed) = BoardSize * BoardSize
    /\ Chequered(2)

\* the row of ids held by a grid whose cells are all collapsed
Row == [i \in 1..size |-> Cell(GridIter[i]).possible[1]]

\* C38: three-prototype path - with catalogue {A, B, C} where A.Right = {B},
\* B.Left = {A}, B.Right = {C}, C.Left = {B} and every other neighbour set
\* empty, on a 3 x 1 grid no contradiction occurs during the run (no cell reaches
\* entropy 0, no rollback and no reset is taken) and a finished run holds the
\* row [A, B, C] or its mirror.
C38_PathRow ==
    (cat = Path /\ width = 3 /\ height = 1) =>
        /\ ~ev.contra
        /\ ev.branch = "none"
        /\ \A p \in AllPositions : Cell(p).entropy # 0
        /\ (Terminated /\ AllCollapsed) => Row \in {<<1, 2, 3>>, <<3, 2, 1>>}

\* C39: no position is recorded twice in the collapse history - each position
\* appears at most once in collapsed (an Implicit entry for a cell that
\* propagation reduced, an Explicit entry for an observed one, never both) and
\* every recorded position has entropy 1 between public calls.
C39_HistoryOnce ==
    pc = "idle" =>
        /\ \A i, j \in DOMAIN collapsed :
              collapsed[i][1] = collapsed[j][1] => i = j
        /\ \A i \in DOMAIN collapsed : Cell(collapsed[i][1]).entropy = 1

\* a catalogue that is symmetric and whose prototypes all have a neighbour in
\* every direction
Admissible(c) ==
    /\ Symmetric(c)
    /\ \A a \in DOMAIN c : \A d \in DirSet : c[a].neighbors[d] # {}

\* tick() or tick_once() has returned and left the propagation queue empty
Settled ==
    /\ pc = "idle"
    /\ op \in {"tick", "tick_once"}
    /\ stack = <<>>

\* C40: propagation reaches a consistent fixpoint - for a symmetric catalogue
\* whose prototypes all have non-empty neighbour sets in all four directions,
\* whenever tick() or tick_once() returns with an empty propagation queue, every
\* prototype still possible in a cell has, in each direction with an in-grid
\* neighbour, one of its neighbours among the possibilities of that neighbour.
C40_Fixpoint ==
    (Admissible(cat) /\ Settled) =>
        \A p \in AllPositions : \A id \in Ids(Cell(p)) : \A d \in InGrid(p) :
            cat[id].neighbors[d] \cap Ids(Cell(Target(p[1], p[2], d))) # {}
====
